---- MODULE Spec2Model ----
(***************************************************************************)
(* HTTP push ingest of the broadcaster node: the connection registry       *)
(* (rtmpConnections, internalManifests), registerConnection,               *)
(* removeRTMPStream, and HandlePush with its two watchdog goroutines (the  *)
(* inactivity reaper and the liveness kicker).                             *)
(*                                                                         *)
(* Time.  Every time.Time value of the program is kept as its AGE: the     *)
(* number of clock units elapsed since that instant, saturating at Cap.    *)
(* time.Now() is age 0, time.Since(t) is the age of t, the zero time.Time  *)
(* is age Cap (older than anything the program compares against).  The     *)
(* action Advance lets one unit pass: it ages every stored time and runs   *)
(* the timers down.  A write therefore moves lastUsed backwards exactly    *)
(* when it stores a larger age than the one it overwrites.                 *)
(*                                                                         *)
(* Locking.  Each action is one critical section of connectionLock (or one *)
(* blocking call made without the lock).  Sections under the write lock    *)
(* exclude everything else.  Sections under the read lock never change the *)
(* two maps, and each makes at most one access to a lastUsed field, so any *)
(* overlap of read-locked sections equals some order of the atomic         *)
(* actions.  The unsynchronised writes of lastUsed under RLock are a data  *)
(* race on a time.Time; the value a later time.Since sees is decided by    *)
(* the monotonic word alone, which is one of the values written, i.e. the  *)
(* outcome of one of the two orders.  The action of a section ends with    *)
(* the RUnlock or Unlock of the goroutine.  In SpecLock taking the lock is *)
(* a step of its own (Acquire), so that a goroutine can be seen holding    *)
(* the lock or waiting for it; in the other specifications a section is    *)
(* taken and given back within its step and connectionLock stays unheld.   *)
(*                                                                         *)
(* Slices.  params.Profiles is a Go slice: the list of profiles together   *)
(* with the array that backs it.  The backing array is either the one of   *)
(* the global BroadcastJobVideoProfiles ("global") or the request's own    *)
(* ("own"); a write through the slice goes to the array that backs it.     *)
(*                                                                         *)
(* Outside calls.  processSegment, the storage session and the format      *)
(* tables of package common are not part of this file: processSegment is   *)
(* an outcome chosen from Outcomes, the tables are those the tests show.   *)
(***************************************************************************)
EXTENDS Integers, FiniteSets, Sequences, TLC

\* ---------------------------------------------------------------- bounds
\* number of push requests in a behaviour
NReq == 3
\* number of requests inside HandlePush at the same time
MaxInFlight == 2
\* httpPushTimeout in clock units
PushTimeout == 2

Req == 1..NReq
\* manifest identities clients put in the URL, and the one the webhook returns
ExtIds == {"e1", "e2"}
\* the two external identities are interchangeable: the first request uses this one
FirstExt == "e1"
IntMid == "intmid"
MIDs == ExtIds \cup {IntMid}
\* BroadcastJobVideoProfiles as configured at start: no profile has a format
DefaultProfiles == <<[Name |-> "P240p30fps4x3", Format |-> "FormatNone"],
                     [Name |-> "P360p30fps16x9", Format |-> "FormatNone"]>>
\* ffmpeg.VideoProfileLookup: the presets parsePresets knows
VideoProfileLookup == {"P144p30fps16x9"}
\* what the webhook may answer besides the ManifestID
WebhookPresets == {<<>>, <<"P144p30fps16x9">>, <<"nosuchpreset">>}
WebhookProfiles == {<<>>, <<"webhook_profile">>}
\* rendition URIs processSegment returns, and the payload it may have stored
URIs == {"u1", "u22"}
Payloads == {"", "data"}
\* ages saturate here: Cap stands for "longer ago than PushTimeout"
Cap == PushTimeout + 1
\* the zero time.Time
ZeroTime == Cap

VARIABLES
  AuthWebhookURL,    \* "" or "hook": whether an auth webhook is configured
  MaxSessions,       \* core.MaxSessions (0: no limit on the number of sessions)
  rtmpConnections,   \* ManifestID -> connection (0: no entry)
  internalManifests, \* ManifestID -> ManifestID ("": no entry)
  cxns,              \* the rtmpConnection objects, by the request that built them
  req,               \* HandlePush: position and locals of each request
  reaper,            \* the watchdog goroutine started by each request
  kicker,            \* the lastUsed-refreshing goroutine of each request
  BroadcastJobVideoProfiles, \* the process-wide default profile set
  NodeStorage,       \* drivers.NodeStorage is set (TRUE) or nil (FALSE)
  authWebhookResponse, \* Presets and Profiles the webhook answers with
  response,          \* w, the ResponseWriter of the request that returned last
  connectionLock,    \* goroutine -> the side of the RWMutex it holds ("": none)
  removeErr          \* what removeRTMPStream returned to endRTMPStreamHandler last

\* the configuration, which no request handler assigns
config == <<AuthWebhookURL, MaxSessions, NodeStorage, authWebhookResponse>>

vars == <<AuthWebhookURL, MaxSessions, rtmpConnections, internalManifests, cxns, req, reaper, kicker,
          BroadcastJobVideoProfiles, NodeStorage, authWebhookResponse, response, removeErr,
          connectionLock>>

\* ------------------------------------------------------------ helpers
Min(a, b) == IF a < b THEN a ELSE b
Older(a) == Min(a + 1, Cap)

\* httpPushResetTimer: sleepDur = int64(float64(httpPushTimeout) * 0.9),
\* never less than one clock unit
sleepDur == IF (PushTimeout * 9) \div 10 > 0 THEN (PushTimeout * 9) \div 10 ELSE 1

\* profile: the Format of the source profile; profiles: params.Profiles
NoCxn == [state |-> "none", mid |-> "", lastUsed |-> ZeroTime,
          closes |-> 0, smCleanups |-> 0, plCleanups |-> 0,
          profile |-> "FormatNone", profiles |-> <<>>]
\* a nil slice
NoProfiles == [backing |-> "own", list |-> <<>>]
\* format: the format of the URL's extension; params: params.Profiles
IdleReq == [pc |-> "idle", url |-> "", mid |-> "", pmid |-> "", oldStreamID |-> "",
            cxn |-> 0, now |-> 0, err |-> "", format |-> "FormatNone",
            params |-> NoProfiles]
\* nothing written to the ResponseWriter; manifestID: the ManifestID the body
\* spells out besides the URL of the request ("": none)
NoResponse == [status |-> 0, body |-> "", manifestID |-> "", contentType |-> "",
               parts |-> <<>>]
\* a request that has returned: its locals are gone
DoneReq == [IdleReq EXCEPT !.pc = "done"]
\* lastUsed: the local of the loop body; read: it was assigned from a
\* connection (FALSE: it holds the zero time.Time it was declared with)
NoReaper == [pc |-> "off", intmid |-> "", extmid |-> "", timer |-> 0,
             tick |-> FALSE, lastUsed |-> ZeroTime, read |-> FALSE]
NoKicker == [pc |-> "off", mid |-> "", timer |-> 0, requestEnded |-> FALSE]

\* the goroutines that take connectionLock: the handler of each request and
\* the two goroutines it starts
Goroutines == {"handler", "reaper", "kicker"} \X Req
handlerOf(h) == <<"handler", h>>
reaperOf(h) == <<"reaper", h>>
kickerOf(h) == <<"kicker", h>>
\* sync.RWMutex as made by NewLivepeerServer: nobody holds it
Unheld == [g \in Goroutines |-> ""]

\* a section that ends without giving the lock back
RUnlockNever(g) == connectionLock
\* a write-locked section that ends without giving the lock back
UnlockNever(g) == connectionLock
\* s.connectionLock.RUnlock() and s.connectionLock.Unlock() by goroutine g
RUnlock(g) == [connectionLock EXCEPT ![g] = ""]
Unlock(g) == [connectionLock EXCEPT ![g] = ""]

\* the requests inside HandlePush, or whose kicker has not exited yet
InFlight == {h \in Req : req[h].pc \notin {"idle", "done"} \/ kicker[h].pc = "run"}

\* webhook answer of authenticateStream: the manifestID, or "" (no webhook)
authenticateStream == IF AuthWebhookURL = "" THEN "" ELSE IntMid

\* a comparison that no lastUsed ever satisfies
ExpiredNever(t) == t > Cap

\* time.Since(t) > httpPushTimeout
Expired(t) == t > PushTimeout

\* removeRTMPStream(s, extmid): the whole write-locked body.  lastUsed of a
\* connection is never read once it is out of the registry, and is dropped
removeIntmid(extmid) ==
  IF internalManifests[extmid] # "" THEN internalManifests[extmid] ELSE extmid
removeOK(extmid) == rtmpConnections[removeIntmid(extmid)] # 0
\* removeRTMPStream that leaves the connection in rtmpConnections
removeConnsKeep(extmid) == rtmpConnections
removeConns(extmid) ==
  IF removeOK(extmid)
    THEN [rtmpConnections EXCEPT ![removeIntmid(extmid)] = 0]
    ELSE rtmpConnections
\* removeRTMPStream that leaves the external ManifestID in internalManifests
removeManifestsKeep(extmid) == internalManifests
removeManifests(extmid) ==
  IF removeOK(extmid)
    THEN [internalManifests EXCEPT ![extmid] = ""]
    ELSE internalManifests
removeCxns(extmid) ==
  IF removeOK(extmid)
    THEN LET id == rtmpConnections[removeIntmid(extmid)]
         IN [cxns EXCEPT ![id].state = "removed",
                         ![id].lastUsed = ZeroTime,
                         ![id].closes = @ + 1,
                         ![id].smCleanups = @ + 1,
                         ![id].plCleanups = @ + 1]
    ELSE cxns

\* a removeRTMPStream that never reports an unknown stream
removeRTMPStreamNil(extmid) == "nil"
\* what removeRTMPStream(s, extmid) returns
removeRTMPStream(extmid) == IF removeOK(extmid) THEN "nil" ELSE "errUnknownStream"

\* garbage collection, run when a request arrives or returns: a connection that
\* is out of the registry (removed, or built and discarded by the loser of a
\* registration race) disappears once the request that built it has returned
\* and no request holds a pointer to it
Collect(cx, rq) ==
  [id \in Req |->
     IF /\ cx[id].state \in {"removed", "discarded"}
        /\ rq[id].pc = "done"
        /\ \A h \in Req : rq[h].cxn # id
       THEN NoCxn ELSE cx[id]]

\* ------------------------------------------------- formats and profiles
\* common.ProfileExtensionFormat: the container format of a file extension
ProfileExtensionFormat(ext) ==
  IF ext = ".ts" THEN "FormatMPEGTS" ELSE IF ext = ".mp4" THEN "FormatMP4" ELSE "FormatNone"

\* common.ProfileFormatExtension and common.ProfileFormatMimeType
ProfileFormatExtension(format) == IF format = "FormatMP4" THEN ".mp4" ELSE ".ts"
ProfileFormatMimeType(format) == IF format = "FormatMP4" THEN "video/mp4" ELSE "video/mp2t"

\* parsePresets: the profiles of the presets that are known, in order
RECURSIVE parsePresets(_)
parsePresets(presets) ==
  IF presets = <<>> THEN <<>>
  ELSE (IF Head(presets) \in VideoProfileLookup
          THEN <<[Name |-> Head(presets), Format |-> "FormatNone"]>> ELSE <<>>)
       \o parsePresets(Tail(presets))

\* jsonProfileToVideoProfile: one VideoProfile per descriptor; Format is not set
jsonProfileToVideoProfile(resp) ==
  [i \in 1..Len(resp.Profiles) |-> [Name |-> resp.Profiles[i], Format |-> "FormatNone"]]

\* createRTMPStreamIDHandler, lines 222-263: the profiles of the stream, as
\* a slice: the webhook's presets and profiles, else the default set itself
ResolveProfiles ==
  IF AuthWebhookURL = ""
    THEN [backing |-> "global", list |-> BroadcastJobVideoProfiles]
    ELSE IF Len(authWebhookResponse.Profiles) <= 0 /\ Len(authWebhookResponse.Presets) <= 0
           THEN [backing |-> "global", list |-> BroadcastJobVideoProfiles]
           ELSE [backing |-> "own",
                 list |-> parsePresets(authWebhookResponse.Presets)
                            \o jsonProfileToVideoProfile(authWebhookResponse)]

\* a slice handed on as it is, sharing its backing array
ShareProfiles(profiles) == profiles
\* line 300: append([]ffmpeg.VideoProfile(nil), profiles...), a fresh array
CopyProfiles(profiles) == [backing |-> "own", list |-> profiles.list]

\* the profiles left as they are
SetFormatsNever(list, format) == list
\* lines 774-778: every profile without a format gets the format of the URL
SetFormats(list, format) ==
  [i \in 1..Len(list) |->
     IF list[i].Format = "FormatNone" THEN [list[i] EXCEPT !.Format = format] ELSE list[i]]

\* the array a slice reads and writes
Backing(profiles) ==
  IF profiles.backing = "global" THEN BroadcastJobVideoProfiles ELSE profiles.list

Init ==
  /\ BroadcastJobVideoProfiles = DefaultProfiles
  /\ NodeStorage = TRUE
  /\ MaxSessions = 0
  /\ authWebhookResponse = [Presets |-> <<>>, Profiles |-> <<>>]
  /\ response = NoResponse
  /\ removeErr = ""
  /\ AuthWebhookURL \in {"", "hook"}
  /\ rtmpConnections = [m \in MIDs |-> 0]
  /\ internalManifests = [m \in MIDs |-> ""]
  /\ cxns = [h \in Req |-> NoCxn]
  /\ req = [h \in Req |-> IdleReq]
  /\ reaper = [h \in Req |-> NoReaper]
  /\ kicker = [h \in Req |-> NoKicker]
  /\ connectionLock = Unheld

\* ---------------------------------------------------------- HandlePush
\* the requests a client can send: method, body that cannot be read,
\* ManifestID in the path ("": none) and extension of the path
Requests == [Method : {"POST", "PUT", "GET"}, readErr : BOOLEAN,
             mid : ExtIds \cup {""}, ext : {".ts", ".mp4", ".m3u8"}]
\* POST /live/<e>/0.ts with a readable body
Push(e) == [Method |-> "POST", readErr |-> FALSE, mid |-> e, ext |-> ".ts"]

\* the early checks without the one of the method
EarlyStatusAnyMethod(r) ==
  IF r.readErr THEN 500
  ELSE IF ProfileExtensionFormat(r.ext) = "FormatNone" THEN 400
  ELSE IF r.mid = "" THEN 400
  ELSE 0
\* lines 689-729: the status HandlePush answers with before it looks at the
\* registry (0: none, the request goes on)
EarlyStatus(r) ==
  IF r.Method # "POST" /\ r.Method # "PUT" THEN 405
  ELSE IF r.readErr THEN 500
  ELSE IF ProfileExtensionFormat(r.ext) = "FormatNone" THEN 400
  ELSE IF r.mid = "" THEN 400
  ELSE 0
EarlyBody(r) ==
  IF r.Method # "POST" /\ r.Method # "PUT" THEN "http push request wrong method"
  ELSE IF r.readErr THEN "Error reading http request body"
  ELSE IF ProfileExtensionFormat(r.ext) = "FormatNone" THEN "ignoring file extension"
  ELSE IF r.mid = "" THEN "Bad URL"
  ELSE ""

\* the request arrives; HandlePush checks the method, reads the body, takes
\* the format of the extension, now := time.Now() and mid := parseManifestID(URL)
Arrive(h, r) ==
  /\ req[h].pc = "idle"
  /\ IF h = 1 THEN TRUE ELSE req[h - 1].pc # "idle"
  /\ Cardinality(InFlight) < MaxInFlight
  /\ h = 1 => r.mid \in {FirstExt, ""}
  /\ IF EarlyStatus(r) # 0
       THEN /\ req' = [req EXCEPT ![h] = DoneReq]
            /\ response' = [NoResponse EXCEPT !.status = EarlyStatus(r), !.body = EarlyBody(r)]
       ELSE /\ req' = [req EXCEPT ![h].pc = "lookup", ![h].url = r.mid, ![h].mid = r.mid,
                                  ![h].now = 0,
                                  ![h].format = ProfileExtensionFormat(r.ext)]
            /\ response' = response
  /\ cxns' = Collect(cxns, req')
  /\ UNCHANGED <<config, connectionLock, BroadcastJobVideoProfiles, removeErr, rtmpConnections, internalManifests, reaper, kicker>>

\* a kicker whose channel holds a signal from the start
StartKickerSignalled(k, m) ==
  [k EXCEPT !.pc = "run", !.mid = m, !.timer = sleepDur, !.requestEnded = TRUE]
\* starting the liveness kicker of request h (its first timer) and entering
\* processSegment
StartKicker(k, m) == [k EXCEPT !.pc = "run", !.mid = m, !.timer = sleepDur]

\* a found connection taking over the format of the request as well
RefreshAndReformat(c, r) ==
  [c EXCEPT !.lastUsed = r.now, !.profile = r.format,
            !.profiles = [i \in 1..Len(c.profiles) |-> [c.profiles[i] EXCEPT !.Format = r.format]]]
\* a lookup that leaves lastUsed as it is
RefreshNot(c, r) == c
\* line 736: cxn.lastUsed = now, the only write to a connection that is found
Refresh(c, r) == [c EXCEPT !.lastUsed = r.now]

\* a lookup that takes the ManifestID of the URL as it is
ResolveDirect(mid) == mid
\* lines 731-733: if intmid, exists := s.internalManifests[mid]; exists { mid = intmid }
Resolve(mid) == IF internalManifests[mid] # "" THEN internalManifests[mid] ELSE mid

\* lines 730-738: resolve mid through internalManifests, look the connection
\* up and, if it is there, write lastUsed = now
Lookup(h) ==
  /\ req[h].pc = "lookup"
  /\ LET m == Resolve(req[h].mid)
         id == rtmpConnections[m]
     IN IF id # 0
          THEN /\ cxns' = [cxns EXCEPT ![id] = Refresh(@, req[h])]
               /\ req' = [req EXCEPT ![h].pc = "process", ![h].mid = m,
                                     ![h].cxn = id, ![h].now = 0]
               /\ kicker' = [kicker EXCEPT ![h] = StartKicker(@, m)]
          ELSE /\ req' = [req EXCEPT ![h].pc = "auth", ![h].mid = m, ![h].now = 0]
               /\ UNCHANGED <<cxns, kicker>>
  /\ connectionLock' = RUnlock(handlerOf(h))
  /\ UNCHANGED <<config, BroadcastJobVideoProfiles, response, removeErr, rtmpConnections, internalManifests, reaper>>

\* lines 816-822 onwards for a request that holds its connection c: go to the
\* bind step when the webhook gave another ManifestID, else start the kicker
\* and call processSegment
AfterRegister(r, c, e) ==
  [r EXCEPT !.cxn = c, !.err = e, !.pmid = "", !.format = "FormatNone",
            !.params = NoProfiles,
            !.oldStreamID = IF cxns[c].mid # r.mid THEN @ ELSE "",
            !.pc = IF cxns[c].mid # r.mid THEN "bind" ELSE "process"]

\* len(s.rtmpConnections)
Sessions == Cardinality({m \in MIDs : rtmpConnections[m] # 0})

\* a node that takes any number of sessions
TooManySessionsNever == FALSE
\* line 292: core.MaxSessions > 0 && len(s.rtmpConnections) >= core.MaxSessions
TooManySessions == MaxSessions > 0 /\ Sessions >= MaxSessions

\* createRTMPStreamIDHandler once the webhook has answered: the ManifestID is
\* the webhook's, else the one of the URL; with too many sessions (read under
\* the read lock, lines 290-295) it returns nil and HandlePush answers 500
\* "Could not create stream ID"; else Profiles is a copy of the resolved
\* profiles; the deferred RUnlock runs on either return
streamParameters(h) ==
  /\ IF TooManySessions
       THEN /\ req' = [req EXCEPT ![h] = DoneReq]
            /\ cxns' = Collect(cxns, req')
            /\ response' = [NoResponse EXCEPT !.status = 500,
                                              !.body = "Could not create stream ID"]
       ELSE /\ req' = [req EXCEPT ![h].pc = "collide",
                                  ![h].pmid = IF authenticateStream # ""
                                                THEN authenticateStream ELSE req[h].url,
                                  ![h].params = CopyProfiles(ResolveProfiles)]
            /\ UNCHANGED <<cxns, response>>
  /\ connectionLock' = RUnlock(handlerOf(h))
  /\ UNCHANGED <<config, BroadcastJobVideoProfiles, removeErr, rtmpConnections, internalManifests, reaper, kicker>>

\* the whole call in one step
createRTMPStreamIDHandler(h) == req[h].pc = "auth" /\ streamParameters(h)

\* the webhook fails or answers with a status other than 200: HandlePush
\* answers 500 "Could not create stream ID"
AuthDenied(h) ==
  /\ req[h].pc = "auth"
  /\ AuthWebhookURL # ""
  /\ req' = [req EXCEPT ![h] = DoneReq]
  /\ cxns' = Collect(cxns, req')
  /\ response' = [NoResponse EXCEPT !.status = 500, !.body = "Could not create stream ID"]
  /\ UNCHANGED <<config, connectionLock, BroadcastJobVideoProfiles, removeErr, rtmpConnections, internalManifests, reaper, kicker>>

\* lines 752-772: the read-locked search for an older stream of the same
\* ManifestID; the map iteration takes any of the matching keys
Collide(h) ==
  /\ req[h].pc = "collide"
  /\ LET r == req[h]
         hit == /\ r.mid # r.pmid
                /\ rtmpConnections[r.pmid] # 0
                /\ internalManifests[r.mid] = ""
         olds == {k \in MIDs : internalManifests[k] = r.pmid}
     IN IF hit /\ olds # {}
          THEN \E k \in olds :
                 req' = [req EXCEPT ![h].oldStreamID = k,
                                    ![h].pc = IF r.mid # k THEN "evict" ELSE "regFast"]
          ELSE req' = [req EXCEPT ![h].pc = "regFast"]
  /\ connectionLock' = RUnlock(handlerOf(h))
  /\ UNCHANGED <<config, BroadcastJobVideoProfiles, response, removeErr, rtmpConnections, internalManifests, cxns, reaper, kicker>>

\* line 768: removeRTMPStream(s, oldStreamID)
Evict(h) ==
  /\ req[h].pc = "evict"
  /\ rtmpConnections' = removeConns(req[h].oldStreamID)
  /\ internalManifests' = removeManifests(req[h].oldStreamID)
  /\ cxns' = removeCxns(req[h].oldStreamID)
  /\ req' = [req EXCEPT ![h].pc = "regFast"]
  /\ connectionLock' = Unlock(handlerOf(h))
  /\ UNCHANGED <<config, BroadcastJobVideoProfiles, response, removeErr, reaper, kicker>>

\* the reaper HandlePush starts at lines 792-812: intmid is cxn.mid, extmid is mid
StartReaper(h) ==
  [NoReaper EXCEPT !.pc = "wait", !.intmid = req[h].pmid, !.extmid = req[h].mid,
                   !.timer = PushTimeout]

\* a watchdog started whatever registerConnection returned
WatchdogAlways(h, err) == StartReaper(h)
\* lines 782-813: the watchdog is started only when registerConnection
\* returned no error
Watchdog(h, err) == IF err = "nil" THEN StartReaper(h) ELSE reaper[h]

\* node storage taken as set
storageUnsetNever == FALSE
\* registerConnection lines 477-480: drivers.NodeStorage == nil
storageUnset == ~NodeStorage

\* HandlePush lines 773-781, then registerConnection lines 468-528:
\* every profile of params without a format gets the format of the URL,
\* written through the slice; without node storage registerConnection
\* returns errStorage and HandlePush answers 500; else the read-locked fast
\* path and, when the ManifestID is free, the new connection with
\* lastUsed = time.Now()
registerFast(h) ==
  /\ req[h].pc = "regFast"
  /\ BroadcastJobVideoProfiles' =
       IF req[h].params.backing = "global"
         THEN SetFormats(BroadcastJobVideoProfiles, req[h].format)
         ELSE BroadcastJobVideoProfiles
  /\ LET old == rtmpConnections[req[h].pmid]
         profiles == SetFormats(Backing(req[h].params), req[h].format)
     IN IF storageUnset
          THEN /\ req' = [req EXCEPT ![h] = DoneReq]
               /\ response' = [NoResponse EXCEPT !.status = 500, !.body = "ErrStorage"]
               /\ cxns' = Collect(cxns, req')
               /\ UNCHANGED <<kicker, reaper>>
          ELSE IF old # 0
          THEN /\ req' = [req EXCEPT ![h] = AfterRegister(@, old, "errAlreadyExists")]
               /\ kicker' = [kicker EXCEPT ![h] =
                               IF cxns[old].mid # req[h].mid THEN @ ELSE StartKicker(@, req[h].mid)]
               /\ reaper' = [reaper EXCEPT ![h] = Watchdog(h, "errAlreadyExists")]
               /\ UNCHANGED <<cxns, response>>
          ELSE /\ cxns' = [cxns EXCEPT ![h] = [NoCxn EXCEPT !.state = "built",
                                                           !.mid = req[h].pmid,
                                                           !.lastUsed = 0,
                                                           !.profile = req[h].format,
                                                           !.profiles = profiles]]
               /\ req' = [req EXCEPT ![h].pc = "regSlow", ![h].format = "FormatNone",
                                     ![h].params = NoProfiles]
               /\ UNCHANGED <<kicker, reaper, response>>
  /\ connectionLock' = RUnlock(handlerOf(h))
  /\ UNCHANGED <<config, removeErr, rtmpConnections, internalManifests>>

\* registerSlow without the second check under the write lock
registerSlowNoRecheck(h) ==
  /\ req[h].pc = "regSlow"
  /\ rtmpConnections' = [rtmpConnections EXCEPT ![req[h].pmid] = h]
  /\ cxns' = [cxns EXCEPT ![h].state = "live"]
  /\ req' = [req EXCEPT ![h] = AfterRegister(@, h, "nil")]
  /\ reaper' = [reaper EXCEPT ![h] = Watchdog(h, "nil")]
  /\ kicker' = [kicker EXCEPT ![h] =
                  IF req[h].pmid # req[h].mid THEN @ ELSE StartKicker(@, req[h].mid)]
  /\ connectionLock' = Unlock(handlerOf(h))
  /\ UNCHANGED <<config, BroadcastJobVideoProfiles, response, removeErr, internalManifests>>

\* registerSlow whose loser leaves its session manager as it is
registerSlowNoCleanup(h) ==
  /\ req[h].pc = "regSlow"
  /\ LET old == rtmpConnections[req[h].pmid]
     IN IF old # 0
          THEN /\ cxns' = [cxns EXCEPT ![h].state = "discarded"]
               /\ req' = [req EXCEPT ![h] = AfterRegister(@, old, "errAlreadyExists")]
               /\ kicker' = [kicker EXCEPT ![h] =
                               IF cxns[old].mid # req[h].mid THEN @ ELSE StartKicker(@, req[h].mid)]
               /\ reaper' = [reaper EXCEPT ![h] = Watchdog(h, "errAlreadyExists")]
               /\ UNCHANGED rtmpConnections
          ELSE /\ rtmpConnections' = [rtmpConnections EXCEPT ![req[h].pmid] = h]
               /\ cxns' = [cxns EXCEPT ![h].state = "live"]
               /\ req' = [req EXCEPT ![h] = AfterRegister(@, h, "nil")]
               /\ reaper' = [reaper EXCEPT ![h] = Watchdog(h, "nil")]
               /\ kicker' = [kicker EXCEPT ![h] =
                               IF req[h].pmid # req[h].mid THEN @ ELSE StartKicker(@, req[h].mid)]
  /\ connectionLock' = Unlock(handlerOf(h))
  /\ UNCHANGED <<config, BroadcastJobVideoProfiles, response, removeErr, internalManifests>>

\* registerConnection, lines 530-544: the write-locked second check and the
\* insertion; HandlePush starts the reaper when err == nil
registerSlow(h) ==
  /\ req[h].pc = "regSlow"
  /\ LET old == rtmpConnections[req[h].pmid]
     IN IF old # 0
          THEN /\ cxns' = [cxns EXCEPT ![h].state = "discarded", ![h].smCleanups = @ + 1]
               /\ req' = [req EXCEPT ![h] = AfterRegister(@, old, "errAlreadyExists")]
               /\ kicker' = [kicker EXCEPT ![h] =
                               IF cxns[old].mid # req[h].mid THEN @ ELSE StartKicker(@, req[h].mid)]
               /\ reaper' = [reaper EXCEPT ![h] = Watchdog(h, "errAlreadyExists")]
               /\ UNCHANGED rtmpConnections
          ELSE /\ rtmpConnections' = [rtmpConnections EXCEPT ![req[h].pmid] = h]
               /\ cxns' = [cxns EXCEPT ![h].state = "live"]
               /\ req' = [req EXCEPT ![h] = AfterRegister(@, h, "nil")]
               /\ reaper' = [reaper EXCEPT ![h] = Watchdog(h, "nil")]
               /\ kicker' = [kicker EXCEPT ![h] =
                               IF req[h].pmid # req[h].mid THEN @ ELSE StartKicker(@, req[h].mid)]
  /\ connectionLock' = Unlock(handlerOf(h))
  /\ UNCHANGED <<config, BroadcastJobVideoProfiles, response, removeErr, internalManifests>>

\* lines 816-822: internalManifests[mid] = cxn.mid under the write lock,
\* then mid = cxn.mid; the kicker starts and processSegment is called
Bind(h) ==
  /\ req[h].pc = "bind"
  /\ internalManifests' = [internalManifests EXCEPT ![req[h].mid] = cxns[req[h].cxn].mid]
  /\ req' = [req EXCEPT ![h].mid = cxns[req[h].cxn].mid, ![h].pc = "process",
                        ![h].oldStreamID = ""]
  /\ kicker' = [kicker EXCEPT ![h] = StartKicker(@, cxns[req[h].cxn].mid)]
  /\ connectionLock' = Unlock(handlerOf(h))
  /\ UNCHANGED <<config, BroadcastJobVideoProfiles, response, removeErr, rtmpConnections, cxns, reaper>>

\* what the storage session holds under a rendition URI
NoData == [present |-> FALSE, bytes |-> ""]
RenditionData == {NoData} \cup [present : {TRUE}, bytes : Payloads]
\* the rendition URI lists processSegment returns
UrlLists == {<<>>, <<"u1">>, <<"u1", "u22">>, <<"u22", "u1">>}
\* what processSegment(cxn, seg) comes back with for a connection of n
\* profiles: an error, or a list of at most n rendition URIs, and the data
\* stored under each; ctxDone: the request context is done by then, which
\* processSegment, called without the context, does not depend on
Outcomes(n) ==
  {[err |-> TRUE, ctxDone |-> d, urls |-> <<>>, data |-> [u \in URIs |-> NoData]] :
     d \in BOOLEAN}
  \cup {o \in [err : {FALSE}, ctxDone : BOOLEAN, urls : UrlLists,
               data : [URIs -> RenditionData]] :
          /\ Len(o.urls) <= n
          /\ \A u \in URIs : (\A i \in 1..Len(o.urls) : o.urls[i] # u) => o.data[u] = NoData
          /\ o.ctxDone => o.urls = <<>>}
\* no orchestrator is available
NoSessions == [err |-> FALSE, ctxDone |-> FALSE, urls |-> <<>>, data |-> [u \in URIs |-> NoData]]
\* values of the Accept header
Accepts == {"", "multipart/mixed", "multipart/mixed, */*"}

\* any Accept header asking for a multipart body
WantsMultipartAny(accept) == accept # ""
\* lines 905 and 913: accept == "multipart/mixed"
WantsMultipart(accept) == accept = "multipart/mixed"

\* every part labelled with the name of the first profile
PartFirstName(c, o, i) ==
  LET url == o.urls[i]
      renditionData == IF o.data[url].present THEN o.data[url].bytes ELSE ""
      profile == cxns[c].profiles[1].Name
  IN IF Len(renditionData) = 0
       THEN [typ |-> "application/vnd+livepeer.uri", ext |-> ".txt", length |-> Len(url),
             name |-> profile, body |-> url]
       ELSE [typ |-> ProfileFormatMimeType(cxns[c].profiles[i].Format),
             ext |-> ProfileFormatExtension(cxns[c].profiles[i].Format),
             length |-> Len(renditionData), name |-> profile, body |-> renditionData]
\* lines 918-950: the part written for the i-th rendition URI
Part(c, o, i) ==
  LET url == o.urls[i]
      renditionData == IF o.data[url].present THEN o.data[url].bytes ELSE ""
      profile == cxns[c].profiles[i].Name
  IN IF Len(renditionData) = 0
       THEN [typ |-> "application/vnd+livepeer.uri", ext |-> ".txt", length |-> Len(url),
             name |-> profile, body |-> url]
       ELSE [typ |-> ProfileFormatMimeType(cxns[c].profiles[i].Format),
             ext |-> ProfileFormatExtension(cxns[c].profiles[i].Format),
             length |-> Len(renditionData), name |-> profile, body |-> renditionData]

\* an empty 200 whatever processSegment returned
ResponseOK(c, o, accept) == [NoResponse EXCEPT !.status = 200]
\* lines 870-965: what HandlePush writes once processSegment has returned o;
\* the error body of line 872 is "... url=%s manifestID=%s err=%v" with the
\* local mid, which by then is cxn.mid
Response(c, o, accept) ==
  IF o.err
    THEN [NoResponse EXCEPT !.status = 500, !.body = "http push error processing segment",
                            !.manifestID = cxns[c].mid]
  ELSE IF o.ctxDone THEN NoResponse
  ELSE IF Len(o.urls) = 0
    THEN [NoResponse EXCEPT !.status = 503, !.body = "No sessions available"]
  ELSE IF ~WantsMultipart(accept) THEN [NoResponse EXCEPT !.status = 200]
  ELSE [status |-> 200, body |-> "", manifestID |-> "", contentType |-> "multipart/mixed",
        parts |-> [i \in 1..Len(o.urls) |-> Part(c, o, i)]]

\* a handler that sends no signal when the client is gone
ReturnSilentWhenGone(h, o, accept) ==
  /\ req[h].pc = "process"
  /\ o \in Outcomes(Len(cxns[req[h].cxn].profiles))
  /\ response' = Response(req[h].cxn, o, accept)
  /\ req' = [req EXCEPT ![h] = DoneReq]
  /\ cxns' = Collect(cxns, req')
  /\ kicker' = [kicker EXCEPT ![h].requestEnded = ~o.ctxDone]
  /\ UNCHANGED <<config, connectionLock, BroadcastJobVideoProfiles, removeErr, rtmpConnections, internalManifests, reaper>>
\* processSegment returns o and HandlePush answers and returns;
\* the deferred send puts the signal into requestEnded
Return(h, o, accept) ==
  /\ req[h].pc = "process"
  /\ o \in Outcomes(Len(cxns[req[h].cxn].profiles))
  /\ response' = Response(req[h].cxn, o, accept)
  /\ req' = [req EXCEPT ![h] = DoneReq]
  /\ cxns' = Collect(cxns, req')
  /\ kicker' = [kicker EXCEPT ![h].requestEnded = TRUE]
  /\ UNCHANGED <<config, connectionLock, BroadcastJobVideoProfiles, removeErr, rtmpConnections, internalManifests, reaper>>

\* ------------------------------------------------------ liveness kicker
\* a kicker that refreshes the connection its request holds
KickerTickHeld(h) ==
  /\ kicker[h].pc = "run"
  /\ kicker[h].timer = 0
  /\ LET id == req[h].cxn
     IN cxns' = IF id # 0 THEN [cxns EXCEPT ![id].lastUsed = 0] ELSE cxns
  /\ kicker' = [kicker EXCEPT ![h].timer = sleepDur]
  /\ connectionLock' = RUnlock(kickerOf(h))
  /\ UNCHANGED <<config, BroadcastJobVideoProfiles, response, removeErr, rtmpConnections, internalManifests, req, reaper>>
\* lines 858-864: the timer of the kicker is done; refresh lastUsed of the
\* connection registered under mid, if any, and take a new timer
KickerTick(h) ==
  /\ kicker[h].pc = "run"
  /\ kicker[h].timer = 0
  /\ LET id == rtmpConnections[kicker[h].mid]
     IN cxns' = IF id # 0 THEN [cxns EXCEPT ![id].lastUsed = 0] ELSE cxns
  /\ kicker' = [kicker EXCEPT ![h].timer = sleepDur]
  /\ connectionLock' = RUnlock(kickerOf(h))
  /\ UNCHANGED <<config, BroadcastJobVideoProfiles, response, removeErr, rtmpConnections, internalManifests, req, reaper>>

\* lines 855-857: the kicker receives requestEnded, cancels its timer, exits
KickerExit(h) ==
  /\ kicker[h].pc = "run"
  /\ kicker[h].requestEnded
  /\ kicker' = [kicker EXCEPT ![h] = NoKicker]
  /\ UNCHANGED <<config, connectionLock, BroadcastJobVideoProfiles, response, removeErr, rtmpConnections, internalManifests, cxns, req, reaper>>

\* ---------------------------------------------------- inactivity reaper
\* a reaper that goes on to the expiry check whatever internalManifests holds
ReaperTickNoExit(h) ==
  /\ reaper[h].pc = "wait"
  /\ reaper[h].tick
  /\ LET w == reaper[h]
         id == rtmpConnections[w.intmid]
         lu == IF id # 0 THEN cxns[id].lastUsed ELSE ZeroTime
     IN reaper' = [reaper EXCEPT ![h].pc = "check", ![h].tick = FALSE, ![h].lastUsed = lu,
                                   ![h].read = id # 0]
  /\ connectionLock' = RUnlock(reaperOf(h))
  /\ UNCHANGED <<config, BroadcastJobVideoProfiles, response, removeErr, rtmpConnections, internalManifests, cxns, req, kicker>>
\* lines 795-806: a tick of the ticker; read lastUsed under the read lock and
\* exit when the external ManifestID is no longer bound
ReaperTick(h) ==
  /\ reaper[h].pc = "wait"
  /\ reaper[h].tick
  /\ LET w == reaper[h]
         id == rtmpConnections[w.intmid]
         lu == IF id # 0 THEN cxns[id].lastUsed ELSE ZeroTime
     IN IF internalManifests[w.extmid] = "" /\ w.intmid # w.extmid
          THEN reaper' = [reaper EXCEPT ![h] = NoReaper]
          ELSE reaper' = [reaper EXCEPT ![h].pc = "check", ![h].tick = FALSE,
                                        ![h].lastUsed = lu, ![h].read = id # 0]
  /\ connectionLock' = RUnlock(reaperOf(h))
  /\ UNCHANGED <<config, BroadcastJobVideoProfiles, response, removeErr, rtmpConnections, internalManifests, cxns, req, kicker>>

\* lines 807-810: time.Since(lastUsed) > httpPushTimeout: remove and exit
ReaperCheck(h) ==
  /\ reaper[h].pc = "check"
  /\ IF Expired(reaper[h].lastUsed)
       THEN /\ rtmpConnections' = removeConns(reaper[h].extmid)
            /\ internalManifests' = removeManifests(reaper[h].extmid)
            /\ cxns' = removeCxns(reaper[h].extmid)
            /\ reaper' = [reaper EXCEPT ![h] = NoReaper]
       ELSE /\ reaper' = [reaper EXCEPT ![h].pc = "wait", ![h].lastUsed = ZeroTime,
                                        ![h].read = FALSE]
            /\ UNCHANGED <<rtmpConnections, internalManifests, cxns>>
  /\ connectionLock' = IF Expired(reaper[h].lastUsed) THEN Unlock(reaperOf(h)) ELSE connectionLock
  /\ UNCHANGED <<config, BroadcastJobVideoProfiles, response, removeErr, req, kicker>>

\* ------------------------------------------------------------- time
\* one clock unit passes: every stored time gets older, the kickers' timers
\* run down, and a ticker that reaches its period leaves a tick in its
\* channel (capacity 1) and starts over
Advance ==
  /\ cxns' = [h \in Req |->
               IF cxns[h].state \in {"built", "live"}
                 THEN [cxns[h] EXCEPT !.lastUsed = Older(@)] ELSE cxns[h]]
  /\ req' = [h \in Req |->
               IF req[h].pc = "lookup" THEN [req[h] EXCEPT !.now = Older(@)] ELSE req[h]]
  /\ reaper' = [h \in Req |->
               LET w == reaper[h]
               IN IF w.pc \in {"wait", "check"}
                    THEN [w EXCEPT !.timer = IF @ = 1 THEN PushTimeout ELSE @ - 1,
                                   !.tick = w.tick \/ w.timer = 1,
                                   !.lastUsed = IF w.pc = "check" THEN Older(@) ELSE @]
                    ELSE w]
  /\ kicker' = [h \in Req |->
               IF kicker[h].pc = "run" /\ kicker[h].timer > 0
                 THEN [kicker[h] EXCEPT !.timer = @ - 1] ELSE kicker[h]]
  /\ UNCHANGED <<config, connectionLock, BroadcastJobVideoProfiles, response, removeErr, rtmpConnections, internalManifests>>

\* a goroutine has a step to take that waits for nothing
Runnable ==
  \/ \E h \in Req : req[h].pc \in {"lookup", "sessions", "collide", "evict", "regFast",
                                      "regSlow", "bind"}
  \/ \E h \in Req : req[h].pc = "auth" /\ AuthWebhookURL = ""
  \/ \E h \in Req : reaper[h].pc = "check" \/ (reaper[h].pc = "wait" /\ reaper[h].tick)
  \/ \E h \in Req : kicker[h].pc = "run" /\ (kicker[h].timer = 0 \/ kicker[h].requestEnded)

\* time passes, whatever the goroutines are doing; a reaper evaluates
\* time.Since(lastUsed) at the instant it read lastUsed
Tick == (\A h \in Req : reaper[h].pc # "check") /\ Advance

\* time passes only when every goroutine is blocked or waiting for a timer
TickPunctual == ~Runnable /\ Advance

Step ==
  \/ \E h \in Req, e \in ExtIds : Arrive(h, Push(e))
  \/ \E h \in Req : Lookup(h)
  \/ \E h \in Req : createRTMPStreamIDHandler(h)
  \/ \E h \in Req : AuthDenied(h)
  \/ \E h \in Req : Collide(h)
  \/ \E h \in Req : Evict(h)
  \/ \E h \in Req : registerFast(h)
  \/ \E h \in Req : registerSlow(h)
  \/ \E h \in Req : Bind(h)
  \/ \E h \in Req : Return(h, NoSessions, "")
  \/ \E h \in Req : KickerTick(h)
  \/ \E h \in Req : KickerExit(h)
  \/ \E h \in Req : ReaperTick(h)
  \/ \E h \in Req : ReaperCheck(h)

Next == Step \/ Tick

\* goroutines run and time passes in any order
Spec == Init /\ [][Next]_vars

NextPunctual == Step \/ TickPunctual

\* timers fire on time and no goroutine is held up between two blocking calls
SpecPunctual == Init /\ [][NextPunctual]_vars

\* what the Go scheduler and the runtime timers guarantee: a goroutine that can
\* take a step takes it, calls made by a request return, time goes on.  No
\* request has to arrive.
Fairness ==
  /\ \A h \in Req :
       /\ WF_vars(Lookup(h))
       /\ WF_vars(createRTMPStreamIDHandler(h) \/ AuthDenied(h))
       /\ WF_vars(Collide(h))
       /\ WF_vars(Evict(h))
       /\ WF_vars(registerFast(h))
       /\ WF_vars(registerSlow(h))
       /\ WF_vars(Bind(h))
       /\ WF_vars(Return(h, NoSessions, ""))
       /\ WF_vars(KickerTick(h))
       /\ WF_vars(KickerExit(h))
       /\ WF_vars(ReaperTick(h))
       /\ WF_vars(ReaperCheck(h))
  /\ WF_vars(TickPunctual)

\* punctual scheduling, with progress
SpecPunctualFair == SpecPunctual /\ Fairness

\* ------------------------------------------- requests of every kind
\* endRTMPStreamHandler: the stream e ends; removeRTMPStream(s, e) is called
\* and its error returned
endRTMPStreamHandler(e) ==
  /\ removeErr' = removeRTMPStream(e)
  /\ rtmpConnections' = removeConns(e)
  /\ internalManifests' = removeManifests(e)
  /\ cxns' = removeCxns(e)
  /\ UNCHANGED <<config, connectionLock, BroadcastJobVideoProfiles, response, req, reaper, kicker>>

\* any configuration: with or without webhook and node storage, the webhook
\* answering with any presets and profiles
InitMedia ==
  /\ BroadcastJobVideoProfiles = DefaultProfiles
  /\ NodeStorage \in BOOLEAN
  /\ MaxSessions = 0
  /\ AuthWebhookURL \in {"", "hook"}
  /\ authWebhookResponse \in [Presets : WebhookPresets, Profiles : WebhookProfiles]
  /\ AuthWebhookURL = "" => authWebhookResponse = [Presets |-> <<>>, Profiles |-> <<>>]
  /\ response = NoResponse
  /\ removeErr = ""
  /\ rtmpConnections = [m \in MIDs |-> 0]
  /\ internalManifests = [m \in MIDs |-> ""]
  /\ cxns = [h \in Req |-> NoCxn]
  /\ req = [h \in Req |-> IdleReq]
  /\ reaper = [h \in Req |-> NoReaper]
  /\ kicker = [h \in Req |-> NoKicker]
  /\ connectionLock = Unheld

\* the steps of HandlePush between its first look at the registry and
\* processSegment
Handle ==
  \/ \E h \in Req : Lookup(h)
  \/ \E h \in Req : createRTMPStreamIDHandler(h)
  \/ \E h \in Req : AuthDenied(h)
  \/ \E h \in Req : Collide(h)
  \/ \E h \in Req : Evict(h)
  \/ \E h \in Req : registerFast(h)
  \/ \E h \in Req : registerSlow(h)
  \/ \E h \in Req : Bind(h)
  \/ \E h \in Req : KickerExit(h)

NextMedia ==
  \/ \E h \in Req, r \in Requests : Arrive(h, r)
  \/ Handle
  \/ \E h \in Req : Return(h, NoSessions, "")

\* requests of every kind in any configuration, with no orchestrator
\* available; every request ends before any timer of the watchdogs fires
SpecMedia == InitMedia /\ [][NextMedia]_vars

NextEnd ==
  \/ \E h \in Req, e \in ExtIds : Arrive(h, Push(e))
  \/ Handle
  \/ \E h \in Req : Return(h, NoSessions, "")
  \/ \E e \in MIDs : endRTMPStreamHandler(e)

\* pushes, and streams ended from outside at any moment
SpecEnd == Init /\ [][NextEnd]_vars

\* well-formed pushes of either format
Pushes == {r \in Requests : EarlyStatus(r) = 0 /\ r.Method = "POST"}

\* a client that sends a request when the one before has been answered
ArriveAlone(h, r) == InFlight = {} /\ Arrive(h, r)

NextRespond ==
  \/ \E h \in Req, r \in Pushes : ArriveAlone(h, r)
  \/ Handle
  \/ \E h \in Req, o \in Outcomes(Len(DefaultProfiles)), accept \in Accepts :
        Return(h, o, accept)

\* well-formed pushes, one after the other, in any configuration, answered
\* by processSegment in every way; every request ends before any timer of
\* the watchdogs fires
SpecRespond == InitMedia /\ [][NextRespond]_vars

\* the registry left behind when a first push to e1 was still before its bind
\* step while the reaper removed the connection, and then bound e1: the
\* mapping e1 -> intmid without a connection, every request returned, every
\* watchdog gone
InitDangling ==
  /\ BroadcastJobVideoProfiles = DefaultProfiles
  /\ NodeStorage = TRUE
  /\ MaxSessions = 0
  /\ AuthWebhookURL = "hook"
  /\ authWebhookResponse = [Presets |-> <<>>, Profiles |-> <<>>]
  /\ response = [NoResponse EXCEPT !.status = 503, !.body = "No sessions available"]
  /\ removeErr = ""
  /\ rtmpConnections = [m \in MIDs |-> 0]
  /\ internalManifests = [m \in MIDs |-> IF m = FirstExt THEN IntMid ELSE ""]
  /\ cxns = [h \in Req |-> NoCxn]
  /\ req = [h \in Req |-> IdleReq]
  /\ reaper = [h \in Req |-> NoReaper]
  /\ kicker = [h \in Req |-> NoKicker]
  /\ connectionLock = Unheld

NextDangling ==
  \/ \E h \in Req, e \in ExtIds : Arrive(h, Push(e))
  \/ Handle
  \/ \E h \in Req : Return(h, NoSessions, "")

\* the pushes that come after the ones that left the dangling mapping
SpecDangling == InitDangling /\ [][NextDangling]_vars

NextSequential ==
  \/ \E h \in Req, e \in ExtIds : ArriveAlone(h, Push(e))
  \/ Handle
  \/ \E h \in Req : Return(h, NoSessions, "")
  \/ \E h \in Req : KickerTick(h)
  \/ \E h \in Req : ReaperTick(h)
  \/ \E h \in Req : ReaperCheck(h)
  \/ Tick

\* a client that sends its pushes one after the other, while time passes and
\* the watchdogs run in any order
SpecSequential == Init /\ [][NextSequential]_vars

\* one result of processSegment, with an Accept header, for every way
\* HandlePush returns after it: error, client gone, no session, empty 200,
\* multipart body
Exits ==
  {<<[NoSessions EXCEPT !.err = TRUE], "">>,
   <<[NoSessions EXCEPT !.ctxDone = TRUE], "">>,
   <<NoSessions, "">>,
   <<[NoSessions EXCEPT !.urls = <<"u1">>], "">>,
   <<[NoSessions EXCEPT !.urls = <<"u1">>], "multipart/mixed">>}

NextServe ==
  \/ \E h \in Req, e \in ExtIds : ArriveAlone(h, Push(e))
  \/ Handle
  \/ \E h \in Req, x \in Exits : Return(h, x[1], x[2])
  \/ \E h \in Req : KickerTick(h)
  \/ \E h \in Req : ReaperTick(h)
  \/ \E h \in Req : ReaperCheck(h)
  \/ Tick

\* pushes one after the other in any configuration, returning from
\* processSegment in every way, while time passes and the watchdogs run
SpecServe == InitMedia /\ [][NextServe]_vars

\* a kicker that can receive from requestEnded does so: once the signal is in
\* the channel every select of the loop finds it ready, and the timer is
\* ready only once in sleepDur
SpecServeFair == SpecServe /\ \A h \in Req : WF_vars(KickerExit(h))

\* a node with a limit on its sessions, with or without a webhook
InitSessions ==
  /\ BroadcastJobVideoProfiles = DefaultProfiles
  /\ NodeStorage = TRUE
  /\ MaxSessions \in 1..2
  /\ AuthWebhookURL \in {"", "hook"}
  /\ authWebhookResponse = [Presets |-> <<>>, Profiles |-> <<>>]
  /\ response = NoResponse
  /\ removeErr = ""
  /\ rtmpConnections = [m \in MIDs |-> 0]
  /\ internalManifests = [m \in MIDs |-> ""]
  /\ cxns = [h \in Req |-> NoCxn]
  /\ req = [h \in Req |-> IdleReq]
  /\ reaper = [h \in Req |-> NoReaper]
  /\ kicker = [h \in Req |-> NoKicker]
  /\ connectionLock = Unheld

\* pushes on a node with a session limit, goroutines and time in any order
SpecSessions == InitSessions /\ [][Next]_vars

\* ------------------------------------------------------- connectionLock
\* the side of connectionLock the next statement of goroutine g asks for
\* ("": it is not at a lock statement).  Handler: lines 730, 290, 752, 554
\* (from 768), 505, 530, 818; kicker: line 860, once its timer is done;
\* reaper: line 797 on a tick, line 554 (from 808) once lastUsed is expired
Wants(g) ==
  LET h == g[2]
  IN IF g[1] = "handler"
       THEN IF req[h].pc \in {"lookup", "sessions", "collide"} THEN "R"
            ELSE IF req[h].pc = "regFast" THEN (IF storageUnset THEN "" ELSE "R")
            ELSE IF req[h].pc \in {"evict", "regSlow", "bind"} THEN "W"
            ELSE ""
     ELSE IF g[1] = "kicker"
       THEN IF kicker[h].pc = "run" /\ kicker[h].timer = 0 THEN "R" ELSE ""
     ELSE IF reaper[h].pc = "wait" /\ reaper[h].tick THEN "R"
          ELSE IF reaper[h].pc = "check" /\ Expired(reaper[h].lastUsed) THEN "W"
          ELSE ""

\* sync.RWMutex: RLock returns when no goroutine holds the write side, Lock
\* when no goroutine holds either side.  (A waiting Lock also holds back new
\* RLocks; that only takes behaviours away as long as no goroutine asks for
\* the lock while it holds it.)
Granted(side) ==
  IF side = "R" THEN \A g \in Goroutines : connectionLock[g] # "W"
  ELSE \A g \in Goroutines : connectionLock[g] = ""

\* goroutine g calls RLock or Lock and the call returns
Acquire(g) ==
  /\ Wants(g) # ""
  /\ connectionLock[g] # Wants(g)
  /\ Granted(Wants(g))
  /\ connectionLock' = [connectionLock EXCEPT ![g] = Wants(g)]
  /\ UNCHANGED <<config, BroadcastJobVideoProfiles, response, removeErr, rtmpConnections,
                 internalManifests, cxns, req, reaper, kicker>>

\* g is inside the section its next statements belong to, or they need no lock
Locked(g) == connectionLock[g] = Wants(g)

\* authenticateStream returned without error (lines 223-226): with no webhook
\* at once, else when the webhook has answered 200
Authenticated(h) ==
  /\ req[h].pc = "auth"
  /\ req' = [req EXCEPT ![h].pc = "sessions"]
  /\ UNCHANGED <<config, connectionLock, BroadcastJobVideoProfiles, response, removeErr,
                 rtmpConnections, internalManifests, cxns, reaper, kicker>>

\* lines 290-304 of createRTMPStreamIDHandler, after RLock
checkSessions(h) == req[h].pc = "sessions" /\ streamParameters(h)

NextLock ==
  \/ \E h \in Req, e \in ExtIds : Arrive(h, Push(e))
  \/ \E g \in Goroutines : Acquire(g)
  \/ \E h \in Req : Locked(handlerOf(h)) /\ Lookup(h)
  \/ \E h \in Req : Authenticated(h)
  \/ \E h \in Req : AuthDenied(h)
  \/ \E h \in Req : Locked(handlerOf(h)) /\ checkSessions(h)
  \/ \E h \in Req : Locked(handlerOf(h)) /\ Collide(h)
  \/ \E h \in Req : Locked(handlerOf(h)) /\ Evict(h)
  \/ \E h \in Req : Locked(handlerOf(h)) /\ registerFast(h)
  \/ \E h \in Req : Locked(handlerOf(h)) /\ registerSlow(h)
  \/ \E h \in Req : Locked(handlerOf(h)) /\ Bind(h)
  \/ \E h \in Req : Return(h, NoSessions, "")
  \/ \E h \in Req : connectionLock[kickerOf(h)] = "R" /\ KickerTick(h)
  \/ \E h \in Req : connectionLock[kickerOf(h)] = "" /\ KickerExit(h)
  \/ \E h \in Req : connectionLock[reaperOf(h)] = "R" /\ ReaperTick(h)
  \/ \E h \in Req : Locked(reaperOf(h)) /\ ReaperCheck(h)
  \/ TickPunctual

\* the goroutines with every RLock and Lock as a step of its own; timers fire
\* on time
SpecLock == Init /\ [][NextLock]_vars

\* the statements of goroutine g between a lock and its unlock
Section(g) ==
  LET h == g[2]
  IN /\ connectionLock[g] # ""
     /\ Locked(g)
     /\ IF g[1] = "handler"
          THEN \/ Lookup(h) \/ checkSessions(h) \/ Collide(h) \/ Evict(h)
               \/ registerFast(h) \/ registerSlow(h) \/ Bind(h)
        ELSE IF g[1] = "kicker" THEN KickerTick(h)
        ELSE ReaperTick(h) \/ ReaperCheck(h)

\* the Go scheduler: a goroutine inside a section goes on
FairnessLock == \A g \in Goroutines : WF_vars(Section(g))

\* the lock statements as steps, with progress
SpecLockFair == SpecLock /\ FairnessLock

\* ------------------------------------------------------------- claims
Live(id) == id # 0 /\ cxns[id].state = "live"
\* the requests that are past their own call of registerConnection
Registered(h) == req[h].pc \in {"bind", "process"} /\ req[h].err # ""

\* C1: of the first pushes racing for one ManifestID exactly one inserts a
\* connection: no ManifestID ever has two connections that were inserted and
\* not removed, the registry entry is that connection, a request that got
\* errAlreadyExists holds the connection another request inserted and, as long
\* as it is not removed, that is the one in the registry
C1_ExactlyOneInserted ==
  /\ \A a, b \in Req : Live(a) /\ Live(b) /\ cxns[a].mid = cxns[b].mid => a = b
  /\ \A a \in Req : Live(a) => rtmpConnections[cxns[a].mid] = a
  /\ \A h \in Req : Registered(h) =>
        /\ req[h].err = "nil" <=> req[h].cxn = h
        /\ req[h].err = "errAlreadyExists" <=> req[h].cxn # h
        /\ cxns[req[h].cxn].state \in {"live", "removed"}

\* C1 witness: a request lost the race inside registerConnection (it built a
\* connection and discarded it) and goes on with the winner's connection,
\* while the winner is still in flight too
C1_Witness ==
  \E w, l \in Req :
    /\ w # l /\ Registered(w) /\ Registered(l)
    /\ cxns[l].state = "discarded" /\ req[l].err = "errAlreadyExists"
    /\ req[l].cxn = w /\ req[w].cxn = w /\ Live(w)
    /\ req[l].pc = "process"

\* C2: every entry internalManifests[e] = i has a connection at rtmpConnections[i]
C2_NoDanglingExternal ==
  \A e \in MIDs : internalManifests[e] # "" => rtmpConnections[internalManifests[e]] # 0

\* C3: the lastUsed of a connection never moves backwards: no step other than
\* the passing of time leaves a connection with an older lastUsed
C3_LastUsedMonotone ==
  [][Tick \/ \A id \in Req :
       (cxns[id].state \in {"built", "live"} /\ cxns'[id].state \in {"built", "live"})
         => cxns'[id].lastUsed <= cxns[id].lastUsed]_vars

\* C4: while a request is inside processSegment on a connection and its
\* kicker runs, no step of a reaper takes that connection out of the registry
C4_NoReapDuringProcess ==
  [][\A h \in Req :
       (/\ req[h].pc = "process" /\ kicker[h].pc = "run"
        /\ Live(req[h].cxn) /\ cxns'[req[h].cxn].state # "live")
         => ~(\E w \in Req : ReaperCheck(w))]_vars

\* no request is inside HandlePush and no kicker is left
Returned == \A h \in Req : req[h].pc \in {"idle", "done"} /\ kicker[h].pc = "off"

\* C5: a reaper started for a stream whose external and internal ManifestID
\* are equal eventually exits, and the connection it was started for is then
\* out of the registry
C5_ReaperRemoves ==
  \A h \in Req :
    (reaper[h].pc # "off" /\ reaper[h].intmid = reaper[h].extmid)
      ~> (reaper[h].pc = "off" /\ ~Live(h) /\ \A m \in MIDs : rtmpConnections[m] # h)

\* C5 witness: without a webhook (so only reapers remove), a connection is
\* removed, its reaper is gone and every request has returned
C5_Witness ==
  /\ AuthWebhookURL = "" /\ Returned
  /\ \E h \in Req : cxns[h].state = "removed" /\ reaper[h].pc = "off"
                      /\ rtmpConnections[cxns[h].mid] = 0

\* C6: with a webhook that rewrites the ManifestID, once pushes have stopped
\* and the requests have returned the stream is reaped: when no request and
\* no reaper is left, no connection and no external mapping is left
C6_AllReapedWhenQuiet ==
  (Returned /\ \A h \in Req : reaper[h].pc = "off")
    => \A m \in MIDs : rtmpConnections[m] = 0 /\ internalManifests[m] = ""

\* the reaper w is running and, if it finds lastUsed expired at its tick, it
\* removes the connection registered under m
Reaps(w, m) ==
  /\ reaper[w].pc \in {"wait", "check"}
  /\ reaper[w].intmid = m
  /\ internalManifests[reaper[w].extmid] # "" \/ reaper[w].intmid = reaper[w].extmid
  /\ removeIntmid(reaper[w].extmid) = m

\* C7: every connection in the registry was used within the last PushTimeout
\* or has a running reaper that removes it at its next tick
C7_FreshOrReaped ==
  \A m \in MIDs :
    rtmpConnections[m] # 0 =>
      \/ cxns[rtmpConnections[m]].lastUsed <= PushTimeout
      \/ \E w \in Req : Reaps(w, m)

\* C8: a push whose new external ManifestID collided with a connection bound
\* to an older external one has, after its bind step, its own external
\* ManifestID mapped to the internal one, the older one unmapped, and a
\* connection registered under the internal one
C8_RebindEvictsOlder ==
  [][\A h \in Req :
       (Bind(h) /\ req[h].oldStreamID # "") =>
         /\ internalManifests'[req[h].mid] = cxns[req[h].cxn].mid
         /\ internalManifests'[req[h].oldStreamID] = ""
         /\ rtmpConnections'[cxns[req[h].cxn].mid] # 0]_vars

\* the request h is about to call removeRTMPStream on an older external
\* ManifestID that still maps to the registered connection it collided with
Collision(h) ==
  /\ req[h].pc = "evict"
  /\ internalManifests[req[h].oldStreamID] = req[h].pmid
  /\ rtmpConnections[req[h].pmid] # 0

C10_ReaperIffInserted ==
  [][/\ \A h \in Req :
          (reaper[h].pc = "off" /\ reaper'[h].pc # "off")
            <=> (cxns[h].state # "live" /\ cxns'[h].state = "live")
     /\ \A h \in Req :
          (req'[h].cxn # 0 /\ req'[h].cxn # h) => reaper'[h].pc = "off"]_vars
C10_Witness ==
  \E a, b \in Req :
    /\ a # b
    /\ req[a].cxn = a /\ req[a].err = "nil" /\ reaper[a].pc = "wait"
    /\ req[b].cxn = a /\ req[b].err = "errAlreadyExists" /\ reaper[b].pc = "off"
    /\ cxns[b].state = "discarded"

\* C11: whatever pushes have been handled, the default profile set has the
\* length it started with and every entry of it still has FormatNone
C11_DefaultsUntouched ==
  /\ Len(BroadcastJobVideoProfiles) = Len(DefaultProfiles)
  /\ \A i \in 1..Len(BroadcastJobVideoProfiles) :
       BroadcastJobVideoProfiles[i].Format = "FormatNone"
C11_Witness ==
  \E id \in Req :
    /\ Live(id)
    /\ cxns[id].profile = "FormatMP4"
    /\ Len(cxns[id].profiles) = Len(DefaultProfiles)
    /\ \A i \in 1..Len(cxns[id].profiles) :
         /\ cxns[id].profiles[i].Name = DefaultProfiles[i].Name
         /\ cxns[id].profiles[i].Format = "FormatMP4"

\* C12: the step that builds the connection of a push gives it the format F
\* of the URL as the format of its source profile, and the profiles of the
\* request as its profile list, where every profile that had FormatNone has
\* F and the others keep their format; from then on no profile of the
\* connection has FormatNone
C12_FormatPropagated ==
  [][\A h \in Req :
       /\ (cxns[h].state = "none" /\ cxns'[h].state = "built") =>
            LET F == req[h].format
                before == Backing(req[h].params)
                after == cxns'[h].profiles
            IN /\ F \in {"FormatMPEGTS", "FormatMP4"}
               /\ cxns'[h].profile = F
               /\ Len(after) = Len(before)
               /\ \A i \in 1..Len(before) :
                    /\ after[i].Name = before[i].Name
                    /\ after[i].Format =
                         IF before[i].Format = "FormatNone" THEN F ELSE before[i].Format
       /\ cxns'[h].state \in {"built", "live"} =>
            /\ cxns'[h].profile # "FormatNone"
            /\ \A i \in 1..Len(cxns'[h].profiles) :
                 cxns'[h].profiles[i].Format # "FormatNone"]_vars
C12_Witness ==
  \E id \in Req :
    /\ Live(id)
    /\ cxns[id].profile = "FormatMP4"
    /\ cxns[id].profiles = <<[Name |-> "P144p30fps16x9", Format |-> "FormatMP4"],
                              [Name |-> "webhook_profile", Format |-> "FormatMP4"]>>

\* the request h holds a connection that another request registered
Reuses(r, h) == r.cxn # 0 /\ r.cxn # h

\* C13: a step of a push that holds a connection registered by another
\* request (found at lookup, or returned with errAlreadyExists) leaves
\* rtmpConnections as it is and, when the connection is registered, leaves
\* its source profile format and its profile list as they are
C13_ReuseKeepsProfiles ==
  [][\A h \in Req :
       (req'[h] # req[h] /\ (Reuses(req[h], h) \/ Reuses(req'[h], h))) =>
         LET c == IF Reuses(req[h], h) THEN req[h].cxn ELSE req'[h].cxn
         IN /\ rtmpConnections' = rtmpConnections
            /\ Live(c) => /\ cxns'[c].state = "live"
                           /\ cxns'[c].profile = cxns[c].profile
                           /\ cxns'[c].profiles = cxns[c].profiles]_vars
C13_Witness ==
  \E h \in Req :
    /\ req[h].pc = "process" /\ req[h].err = "" /\ Reuses(req[h], h)
    /\ req[h].format = "FormatMP4"
    /\ Live(req[h].cxn)
    /\ cxns[req[h].cxn].profile = "FormatMPEGTS"
    /\ \A i \in 1..Len(cxns[req[h].cxn].profiles) :
         cxns[req[h].cxn].profiles[i].Format = "FormatMPEGTS"
    /\ Len(cxns[req[h].cxn].profiles) > 0

\* extmid resolves to no connection of the registry
Unknown(extmid) ==
  rtmpConnections[IF internalManifests[extmid] # "" THEN internalManifests[extmid]
                                                    ELSE extmid] = 0

\* C14: removeRTMPStream called for an identity that resolves to no
\* connection returns errUnknownStream and leaves rtmpConnections,
\* internalManifests and every connection as they are, whoever calls it
C14_RemoveUnknown ==
  [][/\ \A e \in MIDs :
          (Unknown(e) /\ endRTMPStreamHandler(e)) =>
            /\ removeErr' = "errUnknownStream"
            /\ UNCHANGED <<rtmpConnections, internalManifests, cxns>>
     /\ \A h \in Req :
          (req[h].pc = "evict" /\ Unknown(req[h].oldStreamID) /\ Evict(h)) =>
            UNCHANGED <<rtmpConnections, internalManifests, cxns>>]_vars
\* a stream was removed, its connection closed once, and a later removal
\* found nothing
C14_Witness ==
  /\ removeErr = "errUnknownStream"
  /\ \E id \in Req :
       /\ cxns[id].state = "removed" /\ cxns[id].closes = 1
       /\ cxns[id].smCleanups = 1 /\ cxns[id].plCleanups = 1
       /\ rtmpConnections[cxns[id].mid] = 0

\* everything processSegment can come back with
AllOutcomes == Outcomes(Len(DefaultProfiles))

\* C15: when processSegment returns while the request context is live, the
\* status of the response follows from its outcome alone: 500 for an error,
\* 503 "No sessions available" for no error and no URI, 200 for no error and
\* at least one URI; the registry is the same after the response
C15_StatusByOutcome ==
  [][\A h \in Req, o \in AllOutcomes, accept \in Accepts :
       (Return(h, o, accept) /\ ~o.ctxDone) =>
         /\ o.err => /\ response'.status = 500
                      /\ response'.body = "http push error processing segment"
         /\ (~o.err /\ Len(o.urls) = 0) =>
              /\ response'.status = 503
              /\ response'.body = "No sessions available"
         /\ (~o.err /\ Len(o.urls) > 0) => response'.status = 200
         /\ UNCHANGED <<rtmpConnections, internalManifests>>]_vars
C15_Witness ==
  /\ response.status = 500
  /\ response.body = "http push error processing segment"
  /\ \E id \in Req : Live(id)

\* processSegment returned URIs and no error, and the request context is live
Success(o) == ~o.err /\ ~o.ctxDone /\ Len(o.urls) > 0

\* C16: a successful push is answered 200; with an Accept header that is
\* exactly "multipart/mixed" the Content-Type is multipart/mixed and a
\* multipart body is written; with any other Accept header there is no
\* Content-Type, no part and an empty body
C16_MultipartOnlyOnAccept ==
  [][\A h \in Req, o \in AllOutcomes, accept \in Accepts :
       (Return(h, o, accept) /\ Success(o)) =>
         /\ response'.status = 200
         /\ response'.body = ""
         /\ accept = "multipart/mixed" =>
              /\ response'.contentType = "multipart/mixed"
              /\ Len(response'.parts) > 0
         /\ accept # "multipart/mixed" =>
              /\ response'.contentType = ""
              /\ response'.parts = <<>>]_vars
C16_Witness ==
  /\ response = [NoResponse EXCEPT !.status = 200]
  /\ \E id \in Req : Live(id) /\ Len(cxns[id].profiles) > 0

\* C17: a multipart response holds one part per rendition URI returned by
\* processSegment, in the order of the URIs, and the k-th part carries the
\* name of the k-th profile of the connection
C17_PartPerURI ==
  [][\A h \in Req, o \in AllOutcomes, accept \in Accepts :
       (Return(h, o, accept) /\ Success(o) /\ accept = "multipart/mixed") =>
         /\ Len(response'.parts) = Len(o.urls)
         /\ \A k \in 1..Len(o.urls) :
              /\ response'.parts[k].name = cxns[req[h].cxn].profiles[k].Name
              /\ response'.parts[k].body \in {o.urls[k], o.data[o.urls[k]].bytes}
              /\ ~o.data[o.urls[k]].present => response'.parts[k].body = o.urls[k]]_vars
C17_Witness ==
  /\ response.contentType = "multipart/mixed"
  /\ Len(response.parts) = 2
  /\ response.parts[1].body = "u22"
  /\ response.parts[2].body = "u1"
  /\ response.parts[1].name = DefaultProfiles[1].Name
  /\ response.parts[2].name = DefaultProfiles[2].Name

\* C18: in a multipart response the part of a rendition URI is binary (the
\* stored payload, Content-Length its length) whenever the storage session
\* holds a payload under that URI, and a URI reference (the URI string,
\* Content-Length its length) otherwise
C18_BinaryWhenPresent ==
  [][\A h \in Req, o \in AllOutcomes, accept \in Accepts :
       (Return(h, o, accept) /\ Success(o) /\ accept = "multipart/mixed") =>
         \A k \in 1..Len(o.urls) :
           LET url == o.urls[k]
               part == response'.parts[k]
           IN IF o.data[url].present
                THEN /\ part.typ # "application/vnd+livepeer.uri"
                     /\ part.body = o.data[url].bytes
                     /\ part.length = Len(o.data[url].bytes)
                ELSE /\ part.typ = "application/vnd+livepeer.uri"
                     /\ part.body = url
                     /\ part.length = Len(url)]_vars

\* C19: a request turned away by the early checks (405 for a method other
\* than POST and PUT, 500 for a body that cannot be read, 400 for an
\* extension without a format, 400 for an empty ManifestID) is answered with
\* that status and returns at once: rtmpConnections and internalManifests are
\* unchanged, the webhook is not called, no reaper and no kicker is started
C19_EarlyRejection ==
  [][\A h \in Req, r \in Requests :
       LET wrongMethod == r.Method \notin {"POST", "PUT"}
           unread == ~wrongMethod /\ r.readErr
           badExt == ~wrongMethod /\ ~r.readErr /\ r.ext \notin {".ts", ".mp4"}
           noMid == ~wrongMethod /\ ~r.readErr /\ r.ext \in {".ts", ".mp4"} /\ r.mid = ""
       IN (Arrive(h, r) /\ (wrongMethod \/ unread \/ badExt \/ noMid)) =>
            /\ wrongMethod => response'.status = 405
            /\ unread => response'.status = 500
            /\ (badExt \/ noMid) => response'.status = 400
            /\ req'[h].pc = "done"
            /\ UNCHANGED <<rtmpConnections, internalManifests, reaper, kicker>>]_vars
C19_Witness ==
  /\ response.status = 405
  /\ \E m \in MIDs : rtmpConnections[m] # 0 /\ internalManifests # [k \in MIDs |-> ""]

\* C20: a push whose ManifestID is unknown and whose stream cannot be set up,
\* the webhook denying it or registerConnection failing for want of node
\* storage, is answered 500 and returns: nothing is added to rtmpConnections
\* or internalManifests, it has no reaper, and processSegment is not called
C20_BindFailure ==
  [][\A h \in Req :
       /\ (req[h].pc \in {"auth", "regFast"} /\ req'[h].pc = "done") =>
            /\ response'.status = 500
            /\ UNCHANGED <<rtmpConnections, internalManifests, reaper>>
            /\ reaper[h] = NoReaper
            /\ \A m \in MIDs : rtmpConnections[m] # h
       /\ (req[h].pc = "regFast" /\ ~NodeStorage /\ req'[h] # req[h]) =>
            req'[h].pc = "done"]_vars
C20_Witness ==
  /\ response = [NoResponse EXCEPT !.status = 500, !.body = "ErrStorage"]
  /\ ~NodeStorage
  /\ \E h \in Req : req[h].pc = "done"

\* the connection a push to the external ManifestID e finds, 0 if none
Found(e) ==
  IF internalManifests[e] # "" THEN rtmpConnections[internalManifests[e]]
                               ELSE rtmpConnections[e]

\* C21: a push whose ManifestID resolves, directly or through
\* internalManifests, to a connection of the registry goes on with that
\* connection: it does not ask the webhook and builds no connection; a
\* request asks the webhook only after a lookup that found no connection
C21_WebhookOnlyWhenAbsent ==
  [][\A h \in Req :
       /\ (req[h].pc = "lookup" /\ req'[h].pc # "lookup" /\ Found(req[h].mid) # 0) =>
            /\ req'[h].pc = "process"
            /\ req'[h].cxn = Found(req[h].mid)
            /\ cxns'[h].state = "none"
       /\ (req[h].pc # "auth" /\ req'[h].pc = "auth") =>
            req[h].pc = "lookup" /\ Found(req[h].mid) = 0
       /\ (req[h].pc = "process" /\ req[h].err = "") =>
            cxns[h].state = "none" /\ reaper[h].pc = "off"]_vars
C21_Witness ==
  \E h \in Req :
    /\ req[h].pc = "process" /\ req[h].err = ""
    /\ req[h].url # req[h].mid
    /\ internalManifests[req[h].url] = req[h].mid
    /\ Live(req[h].cxn)

\* C22: with a webhook that answers an internal ManifestID i other than the
\* ManifestID e of the URL, connections are registered under i and never
\* under e, and the request that registered as well as the request that got
\* errAlreadyExists goes through the bind step, after which
\* internalManifests[e] = i
C22_RegisteredUnderInternal ==
  [][AuthWebhookURL # "" =>
       /\ \A e \in ExtIds : rtmpConnections[e] = 0
       /\ \A h \in Req :
            /\ (req[h].pc \in {"regFast", "regSlow"} /\ req'[h].pc \notin {"regFast", "regSlow"}) =>
                 /\ req'[h].pc \in {"bind", "process"}
                 /\ req'[h].err \in {"nil", "errAlreadyExists"}
                 /\ req'[h].err = "nil" => rtmpConnections'[IntMid] = h
                 /\ cxns'[req'[h].cxn].mid = IntMid
            /\ (req[h].pc \in {"regFast", "regSlow", "bind"} /\ req'[h].pc = "process") =>
                 internalManifests'[req[h].url] = IntMid]_vars

\* C23: a push that finds its connection writes the arrival time of the
\* request into lastUsed in the step that leads to processSegment; with
\* pushes that come one after the other the time written is never earlier
\* than the one it replaces (instants within one clock unit are one instant
\* here), so lastUsed after the second push is later than after the first
C23_LookupRefreshes ==
  [][\A h \in Req :
       (req[h].pc = "lookup" /\ req'[h].pc # "lookup" /\ Found(req[h].mid) # 0) =>
         LET id == Found(req[h].mid)
         IN /\ cxns'[id].lastUsed = req[h].now
            /\ cxns'[id].lastUsed <= cxns[id].lastUsed
            /\ req'[h].pc = "process"
            /\ req'[h].cxn = id]_vars
C23_Witness ==
  \E h \in Req :
    /\ req[h].pc = "process" /\ req[h].err = "" /\ Live(req[h].cxn)
    /\ cxns[req[h].cxn].lastUsed = 0
    /\ reaper[req[h].cxn].pc = "wait" /\ reaper[req[h].cxn].timer < PushTimeout

\* C24: whenever a reaper removes a connection, the lastUsed of that
\* connection is older than PushTimeout at that moment: a connection
\* refreshed within the last PushTimeout is never reaped
C24_ReapedOnlyWhenStale ==
  [][\A w \in Req, id \in Req :
       (ReaperCheck(w) /\ Live(id) /\ cxns'[id].state = "removed")
         => Expired(cxns[id].lastUsed)]_vars

\* the kicker of request h takes the tick of its timer
Kicks(h) ==
  /\ kicker[h].pc = "run" /\ kicker[h].timer = 0
  /\ kicker'[h] = [kicker[h] EXCEPT !.timer = sleepDur]

\* C25: a tick of the kicker writes the current time into lastUsed of the
\* connection that is registered under the internal ManifestID of its request
\* at that moment and into no other; when no connection is registered under
\* it the tick changes no connection, not even the removed one the request
\* still holds
C25_KickerRefreshesRegistered ==
  [][\A h \in Req :
       Kicks(h) =>
         LET id == rtmpConnections[kicker[h].mid]
         IN /\ req[h].pc = "process" => kicker[h].mid = cxns[req[h].cxn].mid
            /\ id # 0 => cxns' = [cxns EXCEPT ![id].lastUsed = 0]
            /\ id = 0 => cxns' = cxns
            /\ UNCHANGED <<rtmpConnections, internalManifests>>]_vars
C25_Witness ==
  \E h \in Req :
    /\ req[h].pc = "process"
    /\ kicker[h].pc = "run" /\ kicker[h].timer = sleepDur
    /\ cxns[req[h].cxn].state = "removed"
    /\ rtmpConnections[kicker[h].mid] = 0
    /\ reaper[req[h].cxn].pc = "off"

\* C26: the kicker of a push exits after HandlePush has returned, whichever
\* way HandlePush returned (processSegment error, client gone, no session,
\* empty 200, multipart body)
C26_KickerExits ==
  \A h \in Req : (kicker[h].pc = "run" /\ req[h].pc = "done") ~> kicker[h].pc = "off"
C26_Witness ==
  \E h \in Req :
    /\ req[h].pc = "done" /\ kicker[h].pc = "run" /\ kicker[h].requestEnded
    /\ response = NoResponse

\* C27: a push that started its kicker puts the signal into requestEnded
\* once, when HandlePush returns, whichever way it returns; the channel is
\* empty then, so the send does not block; nothing else puts a signal into
\* the channel, and a request that returns before its kicker is started
\* leaves no signal and no kicker
C27_SignalOnce ==
  [][\A h \in Req :
       /\ (req[h].pc = "process" /\ req'[h].pc = "done") =>
            /\ kicker[h].pc = "run"
            /\ ~kicker[h].requestEnded
            /\ kicker'[h] = [kicker[h] EXCEPT !.requestEnded = TRUE]
       /\ (~kicker[h].requestEnded /\ kicker'[h].requestEnded) =>
            req[h].pc = "process" /\ req'[h].pc = "done"
       /\ (req[h].pc \notin {"process", "done"} /\ req'[h].pc = "done") =>
            kicker[h] = NoKicker /\ kicker'[h] = NoKicker
       /\ kicker[h].requestEnded => req[h].pc = "done"]_vars
C27_Witness ==
  \E h \in Req :
    /\ req[h].pc = "done" /\ kicker[h].pc = "run" /\ kicker[h].requestEnded
    /\ response.status = 200 /\ response.contentType = "multipart/mixed"

\* C28: once HandlePush has returned, the kicker of that request takes no
\* further tick: it refreshes no lastUsed and creates no timer, even when
\* its timer is done at the moment the push completes
C28_NoKickAfterReturn ==
  [][\A h \in Req : req[h].pc = "done" => ~Kicks(h)]_vars

\* the reaper w receives a tick of its ticker
Ticks(w) == reaper[w].pc = "wait" /\ reaper[w].tick /\ reaper'[w].pc \in {"check", "off"}

\* C29: a reaper started for an internal ManifestID i and an external
\* ManifestID e other than i exits at the first tick at which e is not in
\* internalManifests, and changes neither rtmpConnections nor
\* internalManifests, whether a connection is registered under i or not
C29_ReaperExitsWhenUnbound ==
  [][\A w \in Req :
       (/\ Ticks(w)
        /\ reaper[w].intmid # reaper[w].extmid
        /\ internalManifests[reaper[w].extmid] = "") =>
         /\ reaper'[w] = NoReaper
         /\ UNCHANGED <<rtmpConnections, internalManifests, cxns>>]_vars
C29_Witness ==
  \E w \in Req :
    /\ reaper[w].pc = "off" /\ Live(w)
    /\ AuthWebhookURL # "" /\ rtmpConnections[IntMid] = w

\* C30: a reaper that ticks when no connection is registered under its
\* internal ManifestID reads no lastUsed, changes neither map at the tick,
\* and exits, at the tick or after its call of removeRTMPStream, which
\* changes neither map: the connection stays absent
C30_ReaperOnRemoved ==
  [][\A w \in Req :
       /\ (Ticks(w) /\ rtmpConnections[reaper[w].intmid] = 0) =>
            /\ reaper'[w] = NoReaper \/ (reaper'[w].pc = "check" /\ ~reaper'[w].read)
            /\ UNCHANGED <<rtmpConnections, internalManifests>>
       /\ (reaper[w].pc = "check" /\ ~reaper[w].read /\ reaper'[w].pc # "check") =>
            /\ reaper'[w] = NoReaper
            /\ UNCHANGED <<rtmpConnections, internalManifests>>]_vars
\* C31: a push that reaches the session check of createRTMPStreamIDHandler
\* with MaxSessions > 0 and at least MaxSessions connections registered is
\* answered 500 "Could not create stream ID" and changes neither map; a push
\* whose lookup finds a connection while the registry is that full goes on to
\* processSegment with that connection
C31_SessionLimit ==
  [][\A h \in Req :
       /\ (/\ req[h].pc = "auth" /\ req'[h].pc # "auth"
           /\ MaxSessions > 0 /\ Sessions >= MaxSessions)
            => /\ req'[h].pc = "done"
               /\ response' = [NoResponse EXCEPT !.status = 500,
                                                 !.body = "Could not create stream ID"]
               /\ rtmpConnections' = rtmpConnections
               /\ internalManifests' = internalManifests
       /\ (/\ req[h].pc = "lookup" /\ req'[h].pc # "lookup"
           /\ MaxSessions > 0 /\ Sessions >= MaxSessions
           /\ rtmpConnections[Resolve(req[h].mid)] # 0)
            => /\ req'[h].pc = "process"
               /\ req'[h].cxn = rtmpConnections[Resolve(req[h].mid)]]_vars

\* C31 witness: without a webhook and with the registry full, a push for a
\* new ManifestID was answered 500 "Could not create stream ID", and a later
\* push for the registered one is inside processSegment
C31_Witness ==
  /\ AuthWebhookURL = "" /\ MaxSessions > 0 /\ Sessions >= MaxSessions
  /\ response = [NoResponse EXCEPT !.status = 500, !.body = "Could not create stream ID"]
  /\ \E h \in Req : req[h].pc = "process" /\ Live(req[h].cxn)
  /\ \E g \in Req : req[g].pc = "done" /\ cxns[g].state = "none"

\* C32: with MaxSessions > 0 the registry never holds more than MaxSessions
\* connections
C32_NeverOverLimit == MaxSessions > 0 => Sessions <= MaxSessions

\* C33: when the write-locked part of registerConnection returns, the session
\* manager it built either belongs to the connection this call put into the
\* registry, with no cleanup, or the call found another connection, left the
\* registry alone, returned that connection and cleaned its own session
\* manager up once; a discarded session manager is never cleaned up again
C33_OwnedOrCleaned ==
  [][\A h \in Req :
       /\ (req[h].pc = "regSlow" /\ req'[h].pc # "regSlow") =>
            LET m == cxns[h].mid
                inserted == /\ rtmpConnections[m] = 0 /\ rtmpConnections'[m] = h
                            /\ cxns'[h].state = "live" /\ req'[h].cxn = h
                            /\ req'[h].err = "nil"
                cleaned == cxns'[h].smCleanups = cxns[h].smCleanups + 1
            IN /\ cxns[h].state = "built" /\ cxns[h].smCleanups = 0
               /\ inserted \/ cleaned
               /\ ~(inserted /\ cleaned)
               /\ cleaned => /\ rtmpConnections[m] \notin {0, h}
                              /\ rtmpConnections' = rtmpConnections
                              /\ req'[h].cxn = rtmpConnections[m]
                              /\ req'[h].err = "errAlreadyExists"
                              /\ cxns'[h].state = "discarded"
       /\ cxns[h].state = "discarded" =>
            cxns'[h].state = "none" \/ cxns'[h].smCleanups = 1]_vars

\* C33 witness: a call lost the write-locked re-check: its session manager is
\* cleaned up once, the winner's is owned by the registered connection
C33_Witness ==
  \E w, l \in Req :
    /\ w # l /\ cxns[l].state = "discarded" /\ cxns[l].smCleanups = 1
    /\ cxns[w].state = "live" /\ cxns[w].smCleanups = 0
    /\ rtmpConnections[cxns[w].mid] = w /\ cxns[l].mid = cxns[w].mid
    /\ req[l].cxn = w

\* the step is a call of removeRTMPStream(s, e): by endRTMPStreamHandler, by
\* the collision branch of HandlePush or by a reaper
Removes(e) ==
  \/ endRTMPStreamHandler(e)
  \/ \E h \in Req : Evict(h) /\ req[h].oldStreamID = e
  \/ \E w \in Req : ReaperCheck(w) /\ Expired(reaper[w].lastUsed) /\ reaper[w].extmid = e

\* C34: a removal is one step: the step that takes a connection out of
\* rtmpConnections is a removeRTMPStream(e) for an e that resolves to it, closes
\* its stream and cleans up its session manager and its playlist, each for
\* the first time, and deletes rtmpConnections[i] and internalManifests[e]
\* and nothing else; an entry of internalManifests is deleted only in such a
\* step; a removed connection is never released again
C34_RemovalAtomic ==
  [][/\ \A id \in Req :
          /\ (cxns[id].state = "live" /\ cxns'[id].state # "live") =>
               LET i == cxns[id].mid
               IN /\ rtmpConnections[i] = id
                  /\ cxns[id].closes = 0 /\ cxns[id].smCleanups = 0 /\ cxns[id].plCleanups = 0
                  /\ cxns'[id].state = "removed"
                  /\ cxns'[id].closes = 1 /\ cxns'[id].smCleanups = 1 /\ cxns'[id].plCleanups = 1
                  /\ \E e \in MIDs :
                       /\ removeIntmid(e) = i
                       /\ rtmpConnections' = [rtmpConnections EXCEPT ![i] = 0]
                       /\ internalManifests' = [internalManifests EXCEPT ![e] = ""]
          /\ cxns[id].state = "removed" =>
               \/ cxns'[id] = cxns[id]
               \/ cxns'[id] = NoCxn
     /\ \A e \in MIDs :
          Removes(e) =>
            LET i == IF internalManifests[e] # "" THEN internalManifests[e] ELSE e
            IN IF rtmpConnections[i] # 0
                 THEN /\ rtmpConnections' = [rtmpConnections EXCEPT ![i] = 0]
                      /\ internalManifests' = [internalManifests EXCEPT ![e] = ""]
                      /\ cxns'[rtmpConnections[i]].state = "removed"
                 ELSE UNCHANGED <<rtmpConnections, internalManifests, cxns>>
     /\ \A m \in MIDs :
          /\ (rtmpConnections[m] # 0 /\ rtmpConnections'[m] = 0) =>
               /\ cxns[rtmpConnections[m]].state = "live"
               /\ cxns'[rtmpConnections[m]].state = "removed"
          /\ (internalManifests[m] # "" /\ internalManifests'[m] = "") =>
               /\ rtmpConnections[internalManifests[m]] # 0
               /\ rtmpConnections'[internalManifests[m]] = 0]_vars

\* C34 witness: removeRTMPStream was called from outside with an external
\* ManifestID and returned nil: the connection is removed, released once,
\* and neither map has an entry left
C34_Witness ==
  /\ AuthWebhookURL = "hook" /\ removeErr = "nil"
  /\ \A m \in MIDs : rtmpConnections[m] = 0 /\ internalManifests[m] = ""
  /\ \E id \in Req :
       /\ cxns[id].state = "removed" /\ cxns[id].mid = IntMid
       /\ cxns[id].closes = 1 /\ cxns[id].smCleanups = 1 /\ cxns[id].plCleanups = 1
       /\ req[id].pc = "process"

\* the connection whose lastUsed the section goroutine g is in writes (0: none)
WritesLastUsed(g) ==
  LET h == g[2]
  IN IF connectionLock[g] = "" THEN 0
     ELSE IF g[1] = "handler" /\ req[h].pc = "lookup"
       THEN rtmpConnections[Resolve(req[h].mid)]
     ELSE IF g[1] = "kicker" /\ kicker[h].pc = "run" /\ kicker[h].timer = 0
       THEN rtmpConnections[kicker[h].mid]
     ELSE 0

\* C35: a step that inserts into or deletes from rtmpConnections or
\* internalManifests, or that writes the lastUsed of a registered connection,
\* is taken by a goroutine that holds the write side of connectionLock, and
\* no two goroutines are at the same time in sections that write the
\* lastUsed of one connection
C35_MutationsUnderWriteLock ==
  /\ [][Advance \/
         ((\/ rtmpConnections' # rtmpConnections
           \/ internalManifests' # internalManifests
           \/ \E id \in Req : /\ Live(id) /\ cxns'[id].state = "live"
                                /\ cxns'[id].lastUsed # cxns[id].lastUsed)
            => \E g \in Goroutines : connectionLock[g] = "W")]_vars
  /\ [](\A g1, g2 \in Goroutines :
          (g1 # g2 /\ WritesLastUsed(g1) # 0) => WritesLastUsed(g1) # WritesLastUsed(g2))

\* the handler of h is reading the request body, waiting for the webhook or
\* inside processSegment (or is not running)
Blocked(h) == req[h].pc \in {"idle", "auth", "process", "done"}

\* C36: a handler that is reading the body, waiting for the webhook or inside
\* processSegment holds neither side of connectionLock; when every holder
\* there could be is such a handler, any goroutine that asks for the lock
\* gets it
C36_NoLockWhileBlocked ==
  /\ \A h \in Req : Blocked(h) => connectionLock[handlerOf(h)] = ""
  /\ \A g \in Goroutines :
       (/\ Wants(g) # "" /\ connectionLock[g] = ""
        /\ \A h \in Req : handlerOf(h) # g => Blocked(h)
        /\ \A h \in Req : reaperOf(h) # g => Wants(reaperOf(h)) = ""
        /\ \A h \in Req : kickerOf(h) # g => Wants(kickerOf(h)) = "")
         => Granted(Wants(g))

\* C36 witness: while one request is inside processSegment and another waits
\* for the webhook, a third goroutine holds the write side of the lock
C36_Witness ==
  \E a, b \in Req, g \in Goroutines :
    /\ req[a].pc = "process" /\ req[b].pc = "auth" /\ AuthWebhookURL = "hook"
    /\ g \notin {handlerOf(a), handlerOf(b)}
    /\ connectionLock[g] = "W"

\* C39: a goroutine that holds a side of connectionLock is inside the section
\* it took that side for: it asks for no other side, it has not returned and
\* is in no blocking call, and its next statements can be taken; a goroutine
\* that asks for the lock is held up only by a goroutine that holds it;
\* whenever the lock is held there comes a moment when every goroutine that
\* held it has given it back
C39_DeadlockFree ==
  /\ [](\A g \in Goroutines :
          /\ connectionLock[g] # "" =>
               connectionLock[g] = Wants(g) /\ ENABLED Section(g)
          /\ (Wants(g) # "" /\ connectionLock[g] = "" /\ ~Granted(Wants(g))) =>
               \E o \in Goroutines : o # g /\ connectionLock[o] # "")
  /\ (connectionLock # Unheld) ~> (connectionLock = Unheld)

\* C39 witness: a request in the collision branch holds the write side for
\* removeRTMPStream while another goroutine waits for the lock
C39_Witness ==
  \E h \in Req, g \in Goroutines :
    /\ req[h].pc = "evict" /\ connectionLock[handlerOf(h)] = "W"
    /\ g # handlerOf(h) /\ Wants(g) # "" /\ connectionLock[g] = ""

\* C37: when the request context is done by the time processSegment returns,
\* HandlePush writes nothing to the ResponseWriter, whatever processSegment
\* returned
C37_SilentWhenCancelled ==
  [][\A h \in Req, o \in Outcomes(Len(DefaultProfiles)), accept \in Accepts :
       (Return(h, o, accept) /\ o.ctxDone) => response' = NoResponse]_vars

\* C38: the response of a request spells out no ManifestID other than the
\* one of the request's own URL
C38_NoInternalIdentity ==
  [][\A h \in Req :
       (req[h].pc # "done" /\ req'[h].pc = "done") =>
         response'.manifestID \in {"", req[h].url}]_vars

\* C40: no two external ManifestIDs are mapped to the same internal one
C40_OneExternalPerInternal ==
  \A a, b \in MIDs :
    (internalManifests[a] # "" /\ internalManifests[a] = internalManifests[b]) => a = b

====
